---- MODULE Spec2Model ----
(***************************************************************************)
(* Model of hop_surprisal.py: compute_circular_surprisal (the circular     *)
(* surprisal engine) and the __main__ pipeline (file sampling, marker      *)
(* localization, counterfactual construction, checkpoint sweep, CSV).      *)
(*                                                                         *)
(* Python lists are TLA+ sequences.  Python indices are 0-based and are    *)
(* kept 0-based in every variable (target_index, sample_indices, ...);     *)
(* element i of a Python list s is s[i + 1] here.                          *)
(* A Python exception ends the run: pc = "failed" and error names the      *)
(* exception class.  None is -1 for an index and 0 for a model.            *)
(***************************************************************************)
EXTENDS Integers, Sequences, FiniteSets, TLC

VARIABLES
    \* ---- __main__ ----
    pc,                            \* position in __main__
    nfiles,                        \* len(test_files)
    file_idx,                      \* index of test_file in test_files
    f_lines,                       \* f.readlines(), each line parsed to ints
    file_token_sequences,
    sample_indices,
    loc_idx,                       \* position of the loop of line 128
    file_target_indices,
    file_nomarker_token_sequences,
    marker_token_sequences,
    nomarker_token_sequences,
    target_indices,
    surprisal_df,                  \* the DataFrame: a sequence of columns
    ckpt_idx,                      \* number of checkpoints completed
    model,                         \* the loaded checkpoint, 0 before any load
    rec_idx,                       \* position of the loop of line 180
    marker_token_surprisals,
    nomarker_token_surprisals,
    written,                       \* number of to_csv calls made
    csv,                           \* content of the output file
    error,                         \* exception that ended the run, "" if none
    \* ---- one call of compute_circular_surprisal, step by step ----
    epc,
    tokens,
    target_index,
    emodel,
    rotated_tokens,
    logits,
    surprisal,                     \* <<>> until returned, then <<value>>
    eerror

mainVars == <<pc, nfiles, file_idx, f_lines, file_token_sequences,
              sample_indices, loc_idx, file_target_indices,
              file_nomarker_token_sequences, marker_token_sequences,
              nomarker_token_sequences, target_indices, surprisal_df,
              ckpt_idx, model, rec_idx, marker_token_surprisals,
              nomarker_token_surprisals, written, csv, error>>

engineVars == <<epc, tokens, target_index, emodel, rotated_tokens, logits,
                surprisal, eerror>>

vars == <<mainVars, engineVars>>

----------------------------------------------------------------------------
(* Program constants.  The token ids come from utils (gpt2_hop_tokenizer); *)
(* only their being pairwise distinct matters.  FILE_SAMPLE_SIZE,          *)
(* MAX_SEQ_LEN and MAX_TRAINING_STEPS are 1000, 1024 and 3000 in the       *)
(* source and are scaled down here, keeping every comparison the code      *)
(* makes with them.                                                        *)

EOS_TOKEN == 0

marker_sg_token == 1

marker_pl_token == 2

FILE_SAMPLE_SIZE == 2

MAX_SEQ_LEN == 4

MAX_TRAINING_STEPS == 200

\* list(range(100, MAX_TRAINING_STEPS+1, 100))
CHECKPOINTS == [i \in 1..(MAX_TRAINING_STEPS \div 100) |-> 100 * i]

(* Bounds of the model. *)
MaxFiles == 1

\* a file holds fewer lines than the sample size, as many, or one more
MaxLines == FILE_SAMPLE_SIZE + 1

MaxLineLen == 4

MaxLen == 4

\* a token that is neither a marker nor the end-of-sequence token
OrdinaryTokens == {3}

MarkerTokens == {marker_sg_token, marker_pl_token}

DiskTokens == MarkerTokens \cup OrdinaryTokens

Vocab == DiskTokens \cup {EOS_TOKEN}

SeqsUpTo(S, n) == UNION {[1..k -> S] : k \in 0..n}

----------------------------------------------------------------------------
(* Python list operations. *)

Min(a, b) == IF a < b THEN a ELSE b

Max(a, b) == IF a > b THEN a ELSE b

\* s[lo:hi] for 0 <= lo, 0 <= hi: both ends are clamped to len(s)
PySlice(s, lo, hi) ==
    LET a == Min(lo, Len(s))
        b == Min(hi, Len(s))
    IN  IF b <= a THEN <<>> ELSE [j \in 1..(b - a) |-> s[a + j]]

\* s[lo:]
PySliceFrom(s, lo) == PySlice(s, lo, Len(s))

\* s[:hi]
PySliceTo(s, hi) == PySlice(s, 0, hi)

\* s[:-1]
PyDropLast(s) == PySlice(s, 0, Max(Len(s) - 1, 0))

\* whether s[i] raises IndexError, for i >= 0 or i = -1
PyIndexOk(s, i) == IF i >= 0 THEN i < Len(s) ELSE Len(s) + i >= 0

\* s[i] where PyIndexOk(s, i)
PyIndex(s, i) == IF i >= 0 THEN s[i + 1] ELSE s[Len(s) + i + 1]

\* s.pop(i) leaves this list, for 0 <= i < len(s)
PyPop(s, i) == [j \in 1..(Len(s) - 1) |-> IF j <= i THEN s[j] ELSE s[j + 1]]

----------------------------------------------------------------------------
(* compute_circular_surprisal *)

\* the rotation cut at the target instead of after it
RotateTargetFirst(toks, t) ==
    PySliceFrom(toks, t) \o PySliceTo(toks, t)

\* tokens[target_index + 1:] + tokens[:target_index] + [tokens[target_index]]
Rotate(toks, t) ==
    PySliceFrom(toks, t + 1) \o PySliceTo(toks, t) \o <<PyIndex(toks, t)>>

\* model(input_ids).logits[0]: a left-to-right model emits one row of scores
\* per position; the row at position i is a function of the checkpoint and of
\* input_ids[0..i], and it scores the token at position i + 1.
ModelLogits(m, ids) ==
    [j \in 1..Len(ids) |->
        [ckpt |-> m, position |-> j - 1, context |-> PySliceTo(ids, j)]]

\* the rows without the [:-1] slice
PredictionRowsAll(m, ids) == ModelLogits(m, ids)

\* outputs.logits[0, :-1]
PredictionRows(m, ids) == PyDropLast(ModelLogits(m, ids))

\* -log2(softmax(row))[entry]: kept symbolic, a function of row and entry
SurprisalOf(row, entry) == [row |-> row, entry |-> entry]

\* the read taken from the first row instead of the last
ReadTargetFirstRow(rows, rot) ==
    SurprisalOf(PyIndex(rows, 0), PyIndex(rot, -1))

\* lines 53-54: -log_probs[-1, rotated_tokens[-1]]
ReadTarget(rows, rot) ==
    SurprisalOf(PyIndex(rows, -1), PyIndex(rot, -1))

\* the whole call: <<value>> when it returns, <<>> when it raises IndexError
compute_circular_surprisal(m, toks, t) ==
    IF ~PyIndexOk(toks, t)
    THEN <<>>
    ELSE LET rot  == Rotate(toks, t)
             rows == PredictionRows(m, rot)
         IN  IF PyIndexOk(rows, -1)
             THEN <<ReadTarget(rows, rot)>>
             ELSE <<>>

EngineInit ==
    /\ epc = "rotate"
    /\ tokens \in SeqsUpTo(Vocab, MaxLen) \ {<<>>}
    /\ target_index \in 0..(Len(tokens) - 1)
    /\ emodel \in {CHECKPOINTS[k] : k \in 1..Len(CHECKPOINTS)}
    /\ rotated_tokens = <<>>
    /\ logits = <<>>
    /\ surprisal = <<>>
    /\ eerror = ""

EngineIdle ==
    /\ epc = "idle"
    /\ tokens = <<>>
    /\ target_index = -1
    /\ emodel = 0
    /\ rotated_tokens = <<>>
    /\ logits = <<>>
    /\ surprisal = <<>>
    /\ eerror = ""

\* line 41
EngineRotate ==
    /\ epc = "rotate"
    /\ IF PyIndexOk(tokens, target_index)
       THEN /\ rotated_tokens' = Rotate(tokens, target_index)
            /\ epc' = "forward"
            /\ UNCHANGED eerror
       ELSE /\ eerror' = "IndexError"
            /\ epc' = "raised"
            /\ UNCHANGED rotated_tokens
    /\ UNCHANGED <<tokens, target_index, emodel, logits, surprisal>>
    /\ UNCHANGED mainVars

\* lines 44-49
EngineForward ==
    /\ epc = "forward"
    /\ logits' = PredictionRows(emodel, rotated_tokens)
    /\ epc' = "read"
    /\ UNCHANGED <<tokens, target_index, emodel, rotated_tokens, surprisal,
                   eerror>>
    /\ UNCHANGED mainVars

\* lines 51-55
EngineRead ==
    /\ epc = "read"
    /\ IF PyIndexOk(logits, -1)
       THEN /\ surprisal' = <<ReadTarget(logits, rotated_tokens)>>
            /\ epc' = "returned"
            /\ UNCHANGED eerror
       ELSE /\ eerror' = "IndexError"
            /\ epc' = "raised"
            /\ UNCHANGED surprisal
    /\ UNCHANGED <<tokens, target_index, emodel, rotated_tokens, logits>>
    /\ UNCHANGED mainVars

----------------------------------------------------------------------------
(* __main__: file sampling *)

\* The lines a test file may hold: every line short enough to pass the
\* filter, and one line of each longer length up to MaxLineLen.
ShortLines == SeqsUpTo(DiskTokens, MAX_SEQ_LEN - 2)

LongLines == {[j \in 1..n |-> marker_sg_token] : n \in (MAX_SEQ_LEN - 1)..MaxLineLen}

Lines == ShortLines \cup LongLines

\* [int(s) for s in l.split()] + [EOS_TOKEN] for each line
WithEos(lines) == [i \in 1..Len(lines) |-> lines[i] \o <<EOS_TOKEN>>]

\* a filter that compares with <= instead of <
KeepUpToMax(toks) == Len(toks) <= MAX_SEQ_LEN

\* len(toks) < MAX_SEQ_LEN
Keep(toks) == Len(toks) < MAX_SEQ_LEN

\* the draw with replace=True: it fails on an empty population only
rng_choice_replace(n, size) ==
    IF n = 0 THEN {} ELSE [1..size -> 0..(n - 1)]

\* rng.choice(list(range(n)), size, replace=False): the index arrays it can
\* return; the empty set when it raises ValueError (size > n)
rng_choice(n, size) ==
    IF size > n
    THEN {}
    ELSE {s \in [1..size -> 0..(n - 1)] :
            \A i, j \in 1..size : i # j => s[i] # s[j]}

\* [file_token_sequences[i] for i in sample_indices]
Gather(seqs, idx) == [i \in 1..Len(idx) |-> seqs[idx[i] + 1]]

MainInit ==
    /\ pc = "files"
    /\ nfiles \in 0..MaxFiles
    /\ file_idx = 0
    /\ f_lines = <<>>
    /\ file_token_sequences = <<>>
    /\ sample_indices = <<>>
    /\ loc_idx = 0
    /\ file_target_indices = <<>>
    /\ file_nomarker_token_sequences = <<>>
    /\ marker_token_sequences = <<>>
    /\ nomarker_token_sequences = <<>>
    /\ target_indices = <<>>
    /\ surprisal_df = <<>>
    /\ ckpt_idx = 0
    /\ model = 0
    /\ rec_idx = 0
    /\ marker_token_surprisals = <<>>
    /\ nomarker_token_surprisals = <<>>
    /\ written = 0
    /\ csv = <<>>
    /\ error = ""

MainIdle ==
    /\ pc = "idle"
    /\ nfiles = 0
    /\ file_idx = 0
    /\ f_lines = <<>>
    /\ file_token_sequences = <<>>
    /\ sample_indices = <<>>
    /\ loc_idx = 0
    /\ file_target_indices = <<>>
    /\ file_nomarker_token_sequences = <<>>
    /\ marker_token_sequences = <<>>
    /\ nomarker_token_sequences = <<>>
    /\ target_indices = <<>>
    /\ surprisal_df = <<>>
    /\ ckpt_idx = 0
    /\ model = 0
    /\ rec_idx = 0
    /\ marker_token_surprisals = <<>>
    /\ nomarker_token_surprisals = <<>>
    /\ written = 0
    /\ csv = <<>>
    /\ error = ""

\* lines 112-118: the next test file is opened and read
ReadFile ==
    /\ pc = "files"
    /\ file_idx < nfiles
    /\ \E content \in SeqsUpTo(Lines, MaxLines) :
          /\ f_lines' = content
          /\ file_token_sequences' = WithEos(content)
    /\ pc' = "filter"
    /\ UNCHANGED <<nfiles, file_idx, sample_indices, loc_idx,
                   file_target_indices, file_nomarker_token_sequences,
                   marker_token_sequences, nomarker_token_sequences,
                   target_indices, surprisal_df, ckpt_idx, model, rec_idx,
                   marker_token_surprisals, nomarker_token_surprisals,
                   written, csv, error>>
    /\ UNCHANGED engineVars

\* lines 119-120
FilterFile ==
    /\ pc = "filter"
    /\ file_token_sequences' = SelectSeq(file_token_sequences, Keep)
    /\ pc' = "choice"
    /\ UNCHANGED <<nfiles, file_idx, f_lines, sample_indices, loc_idx,
                   file_target_indices, file_nomarker_token_sequences,
                   marker_token_sequences, nomarker_token_sequences,
                   target_indices, surprisal_df, ckpt_idx, model, rec_idx,
                   marker_token_surprisals, nomarker_token_surprisals,
                   written, csv, error>>
    /\ UNCHANGED engineVars

\* lines 121-127: the draw, the gather, and the two per-file lists.  The
\* lines read from the file are dead from here on and are dropped.
SampleFile ==
    /\ pc = "choice"
    /\ LET draws == rng_choice(Len(file_token_sequences), FILE_SAMPLE_SIZE)
       IN  IF draws = {}
           THEN /\ error' = "ValueError"
                /\ pc' = "failed"
                /\ UNCHANGED <<f_lines, file_token_sequences, sample_indices,
                               loc_idx, file_target_indices,
                               file_nomarker_token_sequences>>
           ELSE /\ \E idx \in draws :
                      /\ sample_indices' = idx
                      /\ file_token_sequences' =
                             Gather(file_token_sequences, idx)
                /\ f_lines' = <<>>
                /\ loc_idx' = 0
                /\ file_target_indices' = <<>>
                /\ file_nomarker_token_sequences' = <<>>
                /\ pc' = "localize"
                /\ UNCHANGED error
    /\ UNCHANGED <<nfiles, file_idx, marker_token_sequences,
                   nomarker_token_sequences, target_indices, surprisal_df,
                   ckpt_idx, model, rec_idx, marker_token_surprisals,
                   nomarker_token_surprisals, written, csv>>
    /\ UNCHANGED engineVars

----------------------------------------------------------------------------
(* __main__: marker localization and counterfactual construction *)

IsMarker(tok) == tok \in MarkerTokens

\* lines 130-134: index of the first marker token, -1 for None
FirstMarker(toks) ==
    IF \E i \in 1..Len(toks) : IsMarker(toks[i])
    THEN (CHOOSE i \in 1..Len(toks) :
              /\ IsMarker(toks[i])
              /\ \A j \in 1..(i - 1) : ~IsMarker(toks[j])) - 1
    ELSE -1

\* the pop done on the list itself, without the copy
AliasAndPop(toks, t) ==
    [tokens |-> PyPop(toks, t), nomarker |-> PyPop(toks, t)]

\* lines 138-139: nomarker_tokens = tokens.copy(); nomarker_tokens.pop(t)
CopyAndPop(toks, t) ==
    [tokens |-> toks, nomarker |-> PyPop(toks, t)]

\* lines 140-142: "" when the three assertions pass, else the exception
CheckRecord(toks, nomarker, t) ==
    IF PySliceTo(toks, t) # PySliceTo(nomarker, t) THEN "AssertionError"
    ELSE IF ~PyIndexOk(toks, t) THEN "IndexError"
    ELSE IF ~IsMarker(PyIndex(toks, t)) THEN "AssertionError"
    ELSE IF ~PyIndexOk(toks, t + 1) \/ ~PyIndexOk(nomarker, t) THEN "IndexError"
    ELSE IF PyIndex(toks, t + 1) # PyIndex(nomarker, t) THEN "AssertionError"
    ELSE ""

\* a loop body that skips a sequence with no marker
LocalizeOrSkip ==
    /\ pc = "localize"
    /\ loc_idx < Len(file_token_sequences)
    /\ LET toks == file_token_sequences[loc_idx + 1]
           t    == FirstMarker(toks)
       IN  IF t = -1
           THEN /\ loc_idx' = loc_idx + 1
                /\ UNCHANGED <<file_token_sequences, file_target_indices,
                               file_nomarker_token_sequences>>
           ELSE /\ loc_idx' = loc_idx + 1
                /\ file_target_indices' = Append(file_target_indices, t)
                /\ file_nomarker_token_sequences' =
                       Append(file_nomarker_token_sequences, PyPop(toks, t))
                /\ UNCHANGED file_token_sequences
    /\ UNCHANGED <<pc, error, nfiles, file_idx, f_lines, sample_indices,
                   marker_token_sequences, nomarker_token_sequences,
                   target_indices, surprisal_df, ckpt_idx, model, rec_idx,
                   marker_token_surprisals, nomarker_token_surprisals,
                   written, csv>>
    /\ UNCHANGED engineVars

\* lines 128-145: one iteration of the loop over the sampled sequences
Localize ==
    /\ pc = "localize"
    /\ loc_idx < Len(file_token_sequences)
    /\ LET toks == file_token_sequences[loc_idx + 1]
           t    == FirstMarker(toks)
       IN  IF t = -1
           THEN \* assert (target_index is not None)
                /\ error' = "AssertionError"
                /\ pc' = "failed"
                /\ UNCHANGED <<file_token_sequences, loc_idx,
                               file_target_indices,
                               file_nomarker_token_sequences>>
           ELSE LET r == CopyAndPop(toks, t)
                    e == CheckRecord(r.tokens, r.nomarker, t)
                IN  /\ file_token_sequences' =
                           [file_token_sequences EXCEPT ![loc_idx + 1] = r.tokens]
                    /\ IF e # ""
                       THEN /\ error' = e
                            /\ pc' = "failed"
                            /\ UNCHANGED <<loc_idx, file_target_indices,
                                           file_nomarker_token_sequences>>
                       ELSE /\ file_target_indices' =
                                   Append(file_target_indices, t)
                            /\ file_nomarker_token_sequences' =
                                   Append(file_nomarker_token_sequences,
                                          r.nomarker)
                            /\ loc_idx' = loc_idx + 1
                            /\ UNCHANGED <<pc, error>>
    /\ UNCHANGED <<nfiles, file_idx, f_lines, sample_indices,
                   marker_token_sequences, nomarker_token_sequences,
                   target_indices, surprisal_df, ckpt_idx, model, rec_idx,
                   marker_token_surprisals, nomarker_token_surprisals,
                   written, csv>>
    /\ UNCHANGED engineVars

\* lines 147-149, and the step to the next test file.  sample_indices is
\* dead from here on and is dropped.
ExtendFile ==
    /\ pc = "localize"
    /\ loc_idx = Len(file_token_sequences)
    /\ marker_token_sequences' =
           marker_token_sequences \o file_token_sequences
    /\ nomarker_token_sequences' =
           nomarker_token_sequences \o file_nomarker_token_sequences
    /\ target_indices' = target_indices \o file_target_indices
    /\ sample_indices' = <<>>
    /\ file_idx' = file_idx + 1
    /\ pc' = "files"
    /\ UNCHANGED <<nfiles, f_lines, file_token_sequences, loc_idx,
                   file_target_indices, file_nomarker_token_sequences,
                   surprisal_df, ckpt_idx, model, rec_idx,
                   marker_token_surprisals, nomarker_token_surprisals,
                   written, csv, error>>
    /\ UNCHANGED engineVars

----------------------------------------------------------------------------
(* __main__: the result table, the checkpoint sweep and the CSV *)

\* gpt2_hop_tokenizer.decode: the text of each token, in order
TokenText(tok) ==
    IF tok = EOS_TOKEN THEN "<|endoftext|>"
    ELSE IF tok = marker_sg_token THEN "S"
    ELSE IF tok = marker_pl_token THEN "P"
    ELSE "w"

decode(toks) == [text |-> [i \in 1..Len(toks) |-> TokenText(toks[i])]]

NaN == [nan |-> TRUE]

Column(label, ckpt, values) == [label |-> label, ckpt |-> ckpt, values |-> values]

NumRows(df) ==
    IF df = <<>> THEN 0
    ELSE CHOOSE n \in {Len(df[i].values) : i \in 1..Len(df)} :
             \A i \in 1..Len(df) : Len(df[i].values) <= n

PadColumn(col, n) ==
    [col EXCEPT !.values =
        [r \in 1..n |-> IF r <= Len(col.values) THEN col.values[r] ELSE NaN]]

\* a concat that keeps only the newest checkpoint's columns
ConcatReplace(df, other) ==
    PySliceTo(df, 2) \o other

\* pd.concat((df, other), axis=1): the columns of both, rows joined on the
\* RangeIndex, a missing cell being NaN
Concat(df, other) ==
    LET n == Max(NumRows(df), NumRows(other))
        all == df \o other
    IN  [i \in 1..Len(all) |-> PadColumn(all[i], n)]

\* pd.DataFrame(list(zip(a, b)), columns=[...]) of lines 190-194
CkptFrame(ckpt, a, b) ==
    LET n == Min(Len(a), Len(b))
    IN  << Column("Marker Token Surprisals", ckpt, PySliceTo(a, n)),
           Column("No Marker Token Surprisals", ckpt, PySliceTo(b, n)) >>

\* lines 151-160, entered when the loop over test_files is exhausted
BuildTable ==
    /\ pc = "files"
    /\ file_idx = nfiles
    /\ surprisal_df' =
         << Column("Sentences with Marker", 0,
                   [i \in 1..Len(marker_token_sequences) |->
                       decode(marker_token_sequences[i])]),
            Column("Sentences without Marker", 0,
                   [i \in 1..Len(nomarker_token_sequences) |->
                       decode(nomarker_token_sequences[i])]) >>
    /\ ckpt_idx' = 0
    /\ pc' = "sweep"
    /\ UNCHANGED <<nfiles, file_idx, f_lines, file_token_sequences,
                   sample_indices, loc_idx, file_target_indices,
                   file_nomarker_token_sequences, marker_token_sequences,
                   nomarker_token_sequences, target_indices, model, rec_idx,
                   marker_token_surprisals, nomarker_token_surprisals,
                   written, csv, error>>
    /\ UNCHANGED engineVars

\* the sweep is over when every checkpoint of the schedule is done
SweepDoneEarly(k) == k >= 1

SweepDone(k) == k = Len(CHECKPOINTS)

\* lines 164-177: from_pretrained succeeds
LoadModel ==
    /\ pc = "sweep"
    /\ ~SweepDone(ckpt_idx)
    /\ model' = CHECKPOINTS[ckpt_idx + 1]
    /\ marker_token_surprisals' = <<>>
    /\ nomarker_token_surprisals' = <<>>
    /\ rec_idx' = 0
    /\ pc' = "examples"
    /\ UNCHANGED <<nfiles, file_idx, f_lines, file_token_sequences,
                   sample_indices, loc_idx, file_target_indices,
                   file_nomarker_token_sequences, marker_token_sequences,
                   nomarker_token_sequences, target_indices, surprisal_df,
                   ckpt_idx, written, csv, error>>
    /\ UNCHANGED engineVars

\* lines 168-173: from_pretrained raises (no such checkpoint directory)
LoadModelFails ==
    /\ pc = "sweep"
    /\ ~SweepDone(ckpt_idx)
    /\ error' = "OSError"
    /\ pc' = "failed"
    /\ UNCHANGED <<nfiles, file_idx, f_lines, file_token_sequences,
                   sample_indices, loc_idx, file_target_indices,
                   file_nomarker_token_sequences, marker_token_sequences,
                   nomarker_token_sequences, target_indices, surprisal_df,
                   ckpt_idx, model, rec_idx, marker_token_surprisals,
                   nomarker_token_surprisals, written, csv>>
    /\ UNCHANGED engineVars

\* zip(marker_token_sequences, nomarker_token_sequences, target_indices)
NumExamples ==
    Min(Len(marker_token_sequences),
        Min(Len(nomarker_token_sequences), Len(target_indices)))

\* lines 180-187: one iteration of the loop over the examples
ComputeExample ==
    /\ pc = "examples"
    /\ rec_idx < NumExamples
    /\ LET marker_seq   == marker_token_sequences[rec_idx + 1]
           nomarker_seq == nomarker_token_sequences[rec_idx + 1]
           target_idx   == target_indices[rec_idx + 1]
           marker_surp  == compute_circular_surprisal(model, marker_seq, target_idx)
           nomarker_surp == compute_circular_surprisal(model, nomarker_seq, target_idx)
       IN  IF marker_surp = <<>> \/ nomarker_surp = <<>>
           THEN /\ error' = "IndexError"
                /\ pc' = "failed"
                /\ UNCHANGED <<rec_idx, marker_token_surprisals,
                               nomarker_token_surprisals>>
           ELSE /\ marker_token_surprisals' =
                       Append(marker_token_surprisals, marker_surp[1])
                /\ nomarker_token_surprisals' =
                       Append(nomarker_token_surprisals, nomarker_surp[1])
                /\ rec_idx' = rec_idx + 1
                /\ UNCHANGED <<pc, error>>
    /\ UNCHANGED <<nfiles, file_idx, f_lines, file_token_sequences,
                   sample_indices, loc_idx, file_target_indices,
                   file_nomarker_token_sequences, marker_token_sequences,
                   nomarker_token_sequences, target_indices, surprisal_df,
                   ckpt_idx, model, written, csv>>
    /\ UNCHANGED engineVars

\* lines 189-195
AppendColumns ==
    /\ pc = "examples"
    /\ rec_idx = NumExamples
    /\ surprisal_df' =
           Concat(surprisal_df,
                  CkptFrame(model, marker_token_surprisals,
                            nomarker_token_surprisals))
    /\ ckpt_idx' = ckpt_idx + 1
    /\ pc' = "sweep"
    /\ UNCHANGED <<nfiles, file_idx, f_lines, file_token_sequences,
                   sample_indices, loc_idx, file_target_indices,
                   file_nomarker_token_sequences, marker_token_sequences,
                   nomarker_token_sequences, target_indices, model, rec_idx,
                   marker_token_surprisals, nomarker_token_surprisals,
                   written, csv, error>>
    /\ UNCHANGED engineVars

\* lines 197-203
WriteCsv ==
    /\ pc = "sweep"
    /\ SweepDone(ckpt_idx)
    /\ written' = written + 1
    /\ csv' = surprisal_df
    /\ pc' = "done"
    /\ UNCHANGED <<nfiles, file_idx, f_lines, file_token_sequences,
                   sample_indices, loc_idx, file_target_indices,
                   file_nomarker_token_sequences, marker_token_sequences,
                   nomarker_token_sequences, target_indices, surprisal_df,
                   ckpt_idx, model, rec_idx, marker_token_surprisals,
                   nomarker_token_surprisals, error>>
    /\ UNCHANGED engineVars

----------------------------------------------------------------------------
(* The run of __main__. *)
Init == MainInit /\ EngineIdle

Next ==
    \/ ReadFile
    \/ FilterFile
    \/ SampleFile
    \/ Localize
    \/ ExtendFile
    \/ BuildTable
    \/ LoadModel
    \/ LoadModelFails
    \/ ComputeExample
    \/ AppendColumns
    \/ WriteCsv

Spec == Init /\ [][Next]_vars

(* One call of compute_circular_surprisal on any sequence and any valid     *)
(* target index.                                                            *)
InitEngine == MainIdle /\ EngineInit

NextEngine ==
    \/ EngineRotate
    \/ EngineForward
    \/ EngineRead

SpecEngine == InitEngine /\ [][NextEngine]_vars

----------------------------------------------------------------------------
(* Properties of compute_circular_surprisal, checked under SpecEngine.     *)

\* the number of occurrences of each token of s
BagOf(s) ==
    [x \in {s[i] : i \in 1..Len(s)} |->
        Cardinality({i \in 1..Len(s) : s[i] = x})]

Rotated == epc \in {"forward", "read", "returned", "raised"}

\* C1: for a sequence of length L >= 2 and a target index t, 0 <= t < L, the
\* rotation is tokens[t+1..L-1] ++ tokens[0..t-1] ++ [tokens[t]]: length L,
\* the same multiset of tokens, tokens[t] last; for t = L-1 it is the
\* sequence itself, for t = 0 it is tokens[1..L-1] ++ [tokens[0]].
C1_RotationIsCircular ==
    /\ (Rotated /\ Len(tokens) >= 2) =>
         LET L == Len(tokens)
             t == target_index
         IN  /\ rotated_tokens =
                  [j \in 1..L |->
                      IF j <= L - 1 - t THEN tokens[t + 1 + j]
                      ELSE IF j < L THEN tokens[j - (L - 1 - t)]
                      ELSE tokens[t + 1]]
             /\ Len(rotated_tokens) = L
             /\ BagOf(rotated_tokens) = BagOf(tokens)
             /\ rotated_tokens[L] = tokens[t + 1]
             /\ (t = L - 1 => rotated_tokens = tokens)
             /\ (t = 0 => rotated_tokens = Tail(tokens) \o <<Head(tokens)>>)
    /\ Rotate(<<5, 6, 7, 9>>, 3) = <<5, 6, 7, 9>>
    /\ Rotate(<<5, 6, 7, 9>>, 0) = <<6, 7, 9, 5>>

C1_Witness ==
    /\ epc = "returned"
    /\ tokens = <<3, 1, 2, 0>>
    /\ target_index = 1
    /\ rotated_tokens = <<2, 0, 3, 1>>

\* C2: for L >= 2 the call returns, and the value it returns is read from the
\* row the model emits at position L-2 of the rotated sequence (the row that
\* follows rotated[0..L-2] and predicts rotated[L-1]), at the entry of the
\* token tokens[t]; no other row and no other entry is used.
C2_ReadsSecondToLastRowAtTarget ==
    /\ (epc = "returned") =>
         LET L == Len(tokens)
         IN  /\ L >= 2
             /\ surprisal =
                  << [row   |-> [ckpt     |-> emodel,
                                 position |-> L - 2,
                                 context  |-> SubSeq(rotated_tokens, 1, L - 1)],
                      entry |-> tokens[target_index + 1]] >>
             /\ rotated_tokens[(L - 2) + 2] = tokens[target_index + 1]
    /\ (epc = "raised") => Len(tokens) < 2

C2_Witness ==
    /\ epc = "returned"
    /\ tokens = <<1, 3, 0>>
    /\ target_index = 0
    /\ surprisal[1].row.position = 1
    /\ surprisal[1].row.context = <<3, 0>>
    /\ surprisal[1].entry = 1

\* C7: a call on a sequence of length 1 fails and returns no surprisal value.
C7_LengthOneFails ==
    (Len(tokens) = 1) =>
        /\ surprisal = <<>>
        /\ epc # "returned"
        /\ (epc \notin {"rotate", "forward", "read"} =>
               epc = "raised" /\ eerror = "IndexError")

C7_Witness ==
    /\ Len(tokens) = 1
    /\ target_index = 0
    /\ epc = "raised"
    /\ rotated_tokens = tokens
    /\ logits = <<>>

----------------------------------------------------------------------------
(* Properties of __main__, checked under Spec.                             *)

\* c is m with exactly the token at index t deleted
RecordOk(m, c, t) ==
    /\ t >= 0
    /\ t + 1 < Len(m)
    /\ Len(c) = Len(m) - 1
    /\ \A j \in 1..t : c[j] = m[j]
    /\ m[t + 1] \in MarkerTokens
    /\ c[t + 1] = m[t + 2]
    /\ \A j \in (t + 1)..Len(c) : c[j] = m[j + 1]

RecordsOk ==
    /\ Len(marker_token_sequences) = Len(target_indices)
    /\ Len(nomarker_token_sequences) = Len(target_indices)
    /\ \A i \in 1..Len(target_indices) :
          RecordOk(marker_token_sequences[i], nomarker_token_sequences[i],
                   target_indices[i])
    /\ (pc = "localize") =>
          /\ Len(file_target_indices) = loc_idx
          /\ Len(file_nomarker_token_sequences) = loc_idx
          /\ \A i \in 1..loc_idx :
                RecordOk(file_token_sequences[i],
                         file_nomarker_token_sequences[i],
                         file_target_indices[i])

\* C3: in every record the counterfactual sequence is the marker sequence
\* with exactly the token at TargetIndex deleted (one token shorter, the same
\* tokens before TargetIndex, a marker at TargetIndex, the token after it
\* moved to TargetIndex), and building a record leaves the marker sequence
\* as it was sampled.
C3_CounterfactualIsDeletion ==
    /\ []RecordsOk
    /\ [][(pc = "localize") =>
            /\ file_token_sequences' = file_token_sequences
            /\ \A i \in 1..Len(marker_token_sequences) :
                  marker_token_sequences'[i] = marker_token_sequences[i]]_vars

C3_Witness ==
    /\ pc = "sweep"
    /\ marker_token_sequences = << <<3, 1, 0>>, <<2, 3, 0>> >>
    /\ nomarker_token_sequences = << <<3, 0>>, <<3, 0>> >>
    /\ target_indices = <<1, 0>>

OnDiskBelowMax(line) == Len(line) < MAX_SEQ_LEN

WithEosBelowMax(line) == Len(line) + 1 < MAX_SEQ_LEN

\* C4 as stated: a line is eligible if and only if its on-disk token count is
\* strictly less than the maximum length.
C4_EligibleIffOnDiskBelowMax ==
    (pc = "choice") =>
        file_token_sequences = WithEos(SelectSeq(f_lines, OnDiskBelowMax))

\* C4 as amended: a line is eligible if and only if its on-disk token count
\* plus one, for the end-of-sequence token, is strictly less than the maximum
\* length; the eligible lines keep their order.
C4_EligibleIffWithEosBelowMax ==
    (pc = "choice") =>
        file_token_sequences = WithEos(SelectSeq(f_lines, WithEosBelowMax))

C4_Witness ==
    /\ pc = "choice"
    /\ Len(f_lines) = 3
    /\ Len(f_lines[1]) = MAX_SEQ_LEN - 1
    /\ Len(f_lines[2]) = MAX_SEQ_LEN - 2
    /\ Len(f_lines[3]) = MAX_SEQ_LEN
    /\ file_token_sequences = << f_lines[2] \o <<EOS_TOKEN>> >>

\* C5: a file whose eligible population has fewer than N lines makes the
\* draw fail and the run abort; a file with at least N eligible lines yields
\* exactly N sequences, taken at pairwise distinct indices of the population;
\* no file ever contributes fewer than N sequences.
C5_SampleExactlyNOrFail ==
    /\ [][(pc = "choice") =>
            IF Len(file_token_sequences) < FILE_SAMPLE_SIZE
            THEN /\ pc' = "failed"
                 /\ error' # ""
                 /\ marker_token_sequences' = marker_token_sequences
            ELSE /\ pc' = "localize"
                 /\ Len(file_token_sequences') = FILE_SAMPLE_SIZE
                 /\ Len(sample_indices') = FILE_SAMPLE_SIZE
                 /\ \A i \in 1..FILE_SAMPLE_SIZE :
                       /\ sample_indices'[i] \in
                              0..(Len(file_token_sequences) - 1)
                       /\ file_token_sequences'[i] =
                              file_token_sequences[sample_indices'[i] + 1]
                       /\ \A j \in 1..FILE_SAMPLE_SIZE :
                              i # j => sample_indices'[i] # sample_indices'[j]]_vars
    /\ [](Len(marker_token_sequences) = FILE_SAMPLE_SIZE * file_idx)
    /\ []((pc = "localize") => Len(file_token_sequences) = FILE_SAMPLE_SIZE)

C5_Witness ==
    /\ pc = "failed"
    /\ error = "ValueError"
    /\ Len(f_lines) = FILE_SAMPLE_SIZE
    /\ Len(file_token_sequences) = FILE_SAMPLE_SIZE - 1
    /\ marker_token_sequences = <<>>

HasMarker(toks) == \E i \in 1..Len(toks) : toks[i] \in MarkerTokens

\* C6: a sampled sequence with neither marker makes localization fail and
\* the run abort: no record is made for it, it is not skipped, and the run
\* never reaches the checkpoint sweep.
C6_NoMarkerAborts ==
    /\ [][(/\ pc = "localize"
           /\ loc_idx < Len(file_token_sequences)
           /\ ~HasMarker(file_token_sequences[loc_idx + 1])) =>
            /\ pc' = "failed"
            /\ error' = "AssertionError"
            /\ loc_idx' = loc_idx
            /\ UNCHANGED <<file_target_indices,
                           file_nomarker_token_sequences,
                           marker_token_sequences, nomarker_token_sequences,
                           target_indices>>]_vars
    /\ [][(pc = "failed") => (pc' = "failed")]_vars
    /\ []((error = "AssertionError") =>
            /\ pc = "failed"
            /\ model = 0
            /\ surprisal_df = <<>>
            /\ written = 0)
    /\ [](\A i \in 1..Len(marker_token_sequences) :
             HasMarker(marker_token_sequences[i]))

C6_Witness ==
    /\ pc = "failed"
    /\ error = "AssertionError"
    /\ loc_idx = 1
    /\ HasMarker(file_token_sequences[1])
    /\ ~HasMarker(file_token_sequences[2])
    /\ Len(file_target_indices) = 1

TableComplete(df) ==
    /\ Len(df) = 2 + 2 * Len(CHECKPOINTS)
    /\ \A i \in 1..Len(df) :
          Len(df[i].values) = Len(marker_token_sequences)

\* every loop of __main__ is within its range, so that a run that has neither
\* failed nor written the file always has a next step
Running ==
    \/ pc = "files" /\ file_idx <= nfiles
    \/ pc \in {"filter", "choice"}
    \/ pc = "localize" /\ loc_idx <= Len(file_token_sequences)
    \/ pc = "sweep" /\ ckpt_idx <= Len(CHECKPOINTS)
    \/ pc = "examples" /\ rec_idx <= NumExamples

\* C8: the output file is written at most once and only after every
\* checkpoint of the schedule is done for every record; a run that fails
\* writes no file, and a run ends only failed or with exactly one complete
\* table written.
C8_WriteOnceAfterSweep ==
    /\ written \in {0, 1}
    /\ (written = 1) <=> (pc = "done")
    /\ (written = 1) =>
          /\ ckpt_idx = Len(CHECKPOINTS)
          /\ csv = surprisal_df
          /\ TableComplete(csv)
    /\ (written = 0) => csv = <<>>
    /\ (error # "") <=> (pc = "failed")
    /\ (pc = "failed") => written = 0
    /\ (pc \notin {"done", "failed"}) => Running

C8_Witness ==
    /\ pc = "done"
    /\ written = 1
    /\ Len(marker_token_sequences) = FILE_SAMPLE_SIZE
    /\ Len(csv) = 2 + 2 * Len(CHECKPOINTS)

\* the value of row r in the marker and the counterfactual column of
\* checkpoint number k
CellsOk(df, k, r) ==
    /\ <<df[2 * k + 1].values[r]>> =
          compute_circular_surprisal(CHECKPOINTS[k], marker_token_sequences[r],
                                     target_indices[r])
    /\ <<df[2 * k + 2].values[r]>> =
          compute_circular_surprisal(CHECKPOINTS[k], nomarker_token_sequences[r],
                                     target_indices[r])
    /\ df[2 * k + 1].values[r].row.ckpt = CHECKPOINTS[k]
    /\ df[2 * k + 2].values[r].row.ckpt = CHECKPOINTS[k]

TableOk ==
    (surprisal_df # <<>>) =>
        /\ Len(surprisal_df) = 2 + 2 * ckpt_idx
        /\ surprisal_df[1].label = "Sentences with Marker"
        /\ surprisal_df[2].label = "Sentences without Marker"
        /\ \A i \in 1..Len(surprisal_df) :
              Len(surprisal_df[i].values) = Len(target_indices)
        /\ \A k \in 1..ckpt_idx :
              /\ surprisal_df[2 * k + 1].label = "Marker Token Surprisals"
              /\ surprisal_df[2 * k + 1].ckpt = CHECKPOINTS[k]
              /\ surprisal_df[2 * k + 2].label = "No Marker Token Surprisals"
              /\ surprisal_df[2 * k + 2].ckpt = CHECKPOINTS[k]
              /\ (k > 1 => CHECKPOINTS[k - 1] < CHECKPOINTS[k])
              /\ \A r \in 1..Len(target_indices) :
                    CellsOk(surprisal_df, k, r)

\* C9: after k checkpoints the table holds, after the two sentence columns,
\* exactly the marker/counterfactual column pairs of the first k checkpoints
\* in ascending order, each column with one value per record in record
\* order, and a step never changes or removes a column already in the table.
C9_TableAppendOnlyRowAligned ==
    /\ []TableOk
    /\ [][(surprisal_df # <<>>) =>
            /\ Len(surprisal_df') >= Len(surprisal_df)
            /\ \A i \in 1..Len(surprisal_df) :
                  surprisal_df'[i] = surprisal_df[i]]_vars

C9_Witness ==
    /\ pc = "done"
    /\ ckpt_idx = 2
    /\ Len(surprisal_df) = 6
    /\ marker_token_sequences = << <<3, 1, 0>>, <<2, 3, 0>> >>
    /\ surprisal_df[5].values[2].row.context = <<3, 0>>
    /\ surprisal_df[5].values[2].row.ckpt = 200

\* the examples the loop of line 180 has called the engine on under the
\* loaded model, the one whose call raised included
CalledExamples ==
    IF model = 0 THEN {}
    ELSE IF pc = "failed" /\ error = "IndexError" THEN 1..(rec_idx + 1)
    ELSE 1..rec_idx

\* C10: every record that passes sampling and localization gives both calls
\* of the sweep valid input (both sequences of length at least 2, TargetIndex
\* below both lengths), so the engine never fails once a model is loaded.
C10_SweepInputsValid ==
    /\ \A i \in CalledExamples :
          /\ Len(marker_token_sequences[i]) >= 2
          /\ Len(nomarker_token_sequences[i]) >= 2
          /\ target_indices[i] < Len(marker_token_sequences[i])
          /\ target_indices[i] < Len(nomarker_token_sequences[i])
    /\ ~(pc = "failed" /\ model # 0 /\ error = "IndexError")

====
